---------------------------- MODULE Spec2Model ----------------------------
(***************************************************************************)
(* Model of the two automation scripts of the repository:                  *)
(*                                                                         *)
(*   - blueprints/data-solutions/data-platform-minimal/python/main.py,     *)
(*     the CSV -> Parquet conversion script (specification SpecConv);      *)
(*   - pyfiles/automate.py, the Dataplex / BigQuery provisioning script    *)
(*     (specification Spec).                                               *)
(*                                                                         *)
(* Python strings that the scripts take apart (replace, endswith,          *)
(* basename) are sequences of one-character strings; identifiers that are  *)
(* only passed along are TLA+ strings.  Every call into a cloud SDK is one *)
(* step; the service may answer it with an error.                          *)
(***************************************************************************)
EXTENDS Naturals, Sequences, FiniteSets

VARIABLES
  \* ---- conversion script (main.py) ----
  cpc,            \* position in the loop body: download / convert / upload / done / crashed
  ci,             \* index of `file` in csv_files (1-based)
  tmp,            \* local files under /tmp written so far
  landing,        \* object keys written to the bucket
  clog,           \* the calls made so far: <<operation, file, key or path>>
  \* ---- provisioning script (automate.py) ----
  environ,        \* os.environ: GOOGLE_CLOUD_PROJECT, <<>> when it is not set
  listdir,        \* os.path.exists(LOCAL_CSV_DIR) and os.listdir(LOCAL_CSV_DIR)
  csv_files,      \* main's csv_files
  gcs_file_uris,  \* main's gcs_file_uris
  ui,             \* position of the upload loop in csv_files
  ti,             \* position of the table loop in gcs_file_uris
  pc,             \* the statement of main that runs next
  at,             \* the place inside the procedure main is calling
  run,            \* number of the current run of the script
  objects,        \* blobs held by the bucket
  lakes,          \* lakes held by Dataplex
  zones,          \* zones held by Dataplex
  assets,         \* assets held by Dataplex
  datasets,       \* datasets held by BigQuery
  tables,         \* tables held by BigQuery
  discovery,      \* the asset's discovery job: idle / running / finished
  calls,          \* the SDK calls of this run: [api, arg, answer, run, line]
  earlier,        \* the SDK calls of the first run, once it has ended normally
  out,            \* the lines this run has printed: <<kind of line, subject, run>>
  raised          \* the exception that left main, or NoError

convVars == <<cpc, ci, tmp, landing, clog>>
provVars == <<environ, listdir, csv_files, gcs_file_uris, ui, ti, pc, at, run, objects,
              lakes, zones, assets, datasets, tables, discovery, calls,
              earlier, out, raised>>
vars == <<convVars, provVars>>

---------------------------------------------------------------------------
(* Python string operations *)

\* s.startswith(p)
StartsWith(s, p) ==
  /\ Len(p) <= Len(s)
  /\ SubSeq(s, 1, Len(p)) = p

\* s.endswith(p)
EndsWith(s, p) ==
  /\ Len(p) <= Len(s)
  /\ SubSeq(s, Len(s) - Len(p) + 1, Len(s)) = p

\* s.replace(old, new), old not empty: every non-overlapping occurrence of
\* old, found left to right, is replaced.
RECURSIVE StrReplace(_, _, _)
StrReplace(s, old, new) ==
  IF Len(s) < Len(old) THEN s
  ELSE IF StartsWith(s, old)
       THEN new \o StrReplace(SubSeq(s, Len(old) + 1, Len(s)), old, new)
       ELSE <<Head(s)>> \o StrReplace(Tail(s), old, new)

\* os.path.basename(p): what follows the last "/"
RECURSIVE Basename(_)
Basename(p) ==
  IF \E i \in 1..Len(p) : p[i] = "/"
  THEN Basename(Tail(p))
  ELSE p

CSV_EXT == <<".","c","s","v">>
PARQUET_EXT == <<".","p","a","r","q","u","e","t">>
TMP_DIR == <<"/","t","m","p","/">>

---------------------------------------------------------------------------
(* The conversion script: main.py *)

source_prefix == <<"s","y","n","t","h","e","a","/">>
target_prefix == <<"l","a","n","d","i","n","g","-","p","a","r","q","u","e","t","/">>

conv_csv_files ==
  <<
    <<"a","l","l","e","r","g","i","e","s",".","c","s","v">>,
    <<"c","a","r","e","p","l","a","n","s",".","c","s","v">>,
    <<"c","l","a","i","m","s",".","c","s","v">>,
    <<"c","l","a","i","m","s","_","t","r","a","n","s","a","c","t","i","o","n","s",".","c","s","v">>,
    <<"c","o","n","d","i","t","i","o","n","s",".","c","s","v">>,
    <<"d","e","v","i","c","e","s",".","c","s","v">>,
    <<"e","n","c","o","u","n","t","e","r","s",".","c","s","v">>,
    <<"i","m","a","g","i","n","g","_","s","t","u","d","i","e","s",".","c","s","v">>,
    <<"i","m","m","u","n","i","z","a","t","i","o","n","s",".","c","s","v">>,
    <<"m","e","d","i","c","a","t","i","o","n","s",".","c","s","v">>,
    <<"o","b","s","e","r","v","a","t","i","o","n","s",".","c","s","v">>,
    <<"o","r","g","a","n","i","z","a","t","i","o","n","s",".","c","s","v">>,
    <<"p","a","t","i","e","n","t","s",".","c","s","v">>,
    <<"p","a","y","e","r","_","t","r","a","n","s","i","t","i","o","n","s",".","c","s","v">>,
    <<"p","a","y","e","r","s",".","c","s","v">>,
    <<"p","r","o","c","e","d","u","r","e","s",".","c","s","v">>,
    <<"p","r","o","v","i","d","e","r","s",".","c","s","v">>,
    <<"s","u","p","p","l","i","e","s",".","c","s","v">>
  >>

\* blob = bucket.blob(source_prefix + file)
SourceKey(file) == source_prefix \o file

\* local_csv = f"/tmp/{file}"
local_csv(file) == TMP_DIR \o file

\* local_parquet = local_csv.replace(".csv", ".parquet")
local_parquet(file) == StrReplace(local_csv(file), CSV_EXT, PARQUET_EXT)

\* Faulty variant of TargetKey: the extension is left as it is.
TargetKeyNoSubstitution(file) == target_prefix \o file

\* parquet_blob = bucket.blob(target_prefix + file.replace(".csv", ".parquet"))
TargetKey(file) == target_prefix \o StrReplace(file, CSV_EXT, PARQUET_EXT)

\* Faulty variant of NextFile: every other file is skipped.
NextFileSkipping(i) == i + 2

\* `for file in csv_files`: the file after the i-th
NextFile(i) == i + 1

\* The position after the body has run for the i-th file.
LoopTo(i) ==
  IF i > Len(conv_csv_files) THEN "done" ELSE "download"

\* An uncaught exception ends the script where it is.
Crash ==
  /\ cpc' = "crashed"
  /\ UNCHANGED <<ci, tmp, landing, clog>>

\* blob.download_to_filename(local_csv)
Download ==
  /\ cpc = "download"
  /\ LET file == conv_csv_files[ci] IN
       \/ /\ tmp' = tmp \cup {local_csv(file)}
          /\ clog' = Append(clog, <<"download", file, SourceKey(file)>>)
          /\ cpc' = "convert"
          /\ UNCHANGED <<ci, landing>>
       \/ Crash
  /\ UNCHANGED provVars

\* pd.read_csv, pa.Table.from_pandas, pq.write_table
Convert ==
  /\ cpc = "convert"
  /\ LET file == conv_csv_files[ci] IN
       \/ /\ local_csv(file) \in tmp
          /\ tmp' = tmp \cup {local_parquet(file)}
          /\ clog' = Append(clog, <<"convert", file, local_parquet(file)>>)
          /\ cpc' = "upload"
          /\ UNCHANGED <<ci, landing>>
       \/ Crash
  /\ UNCHANGED provVars

\* parquet_blob.upload_from_filename(local_parquet); print; next file
Upload ==
  /\ cpc = "upload"
  /\ LET file == conv_csv_files[ci] IN
       \/ /\ local_parquet(file) \in tmp
          /\ landing' = landing \cup {TargetKey(file)}
          /\ clog' = Append(clog, <<"upload", file, TargetKey(file)>>)
          /\ ci' = NextFile(ci)
          /\ cpc' = LoopTo(NextFile(ci))
          /\ UNCHANGED tmp
       \/ Crash
  /\ UNCHANGED provVars

ConvInit ==
  /\ cpc = LoopTo(1)
  /\ ci = 1
  /\ tmp = {}
  /\ landing = {}
  /\ clog = <<>>

ConvNext == Download \/ Convert \/ Upload

---------------------------------------------------------------------------
(* The provisioning script: automate.py *)

\* The values GOOGLE_CLOUD_PROJECT may have when the script is started:
\* not set, set to the empty string, set to a project.
EnvironValues == {<<>>, <<"">>, <<"proj-x">>}

\* PROJECT_ID = os.environ.get("GOOGLE_CLOUD_PROJECT") or "your-gcp-project-id"
PROJECT_ID ==
  IF environ # <<>> /\ environ[1] # ""
  THEN environ[1]
  ELSE "your-gcp-project-id"
REGION == "us-central1"
GCS_BUCKET_NAME ==
  <<"y","o","u","r","-","c","s","v","-","s","o","u","r","c","e","-","b","u","c","k","e","t">>
LAKE_ID == "my-csv-lake"
ZONE_ID == "raw-csv-data"
ASSET_ID == "csv-files-asset"
BIGQUERY_DATASET_ID == "raw_csv_data_bq"
LOCAL_CSV_DIR == "csv_files"
SLEEP_SECONDS == 60

CSV_DATA == <<"c","s","v","_","d","a","t","a","/">>
GS == <<"g","s",":","/","/">>

\* How often the script is started.
MaxRuns == 2

\* The names a local csv_files directory may hold.
DirEntries ==
  { <<"a","-","b",".","c","s","v">>,
    <<"a","_","b",".","c","s","v">>,
    <<"n",".","t","x","t">> }

\* The local directory: whether os.path.exists(LOCAL_CSV_DIR), and os.listdir
Dir(exists, entries) == [exists |-> exists, entries |-> entries]

NoDir == Dir(FALSE, <<>>)

\* os.listdir: the entries of the directory, each once, in any order
Listings ==
  { l \in UNION { [1..n -> DirEntries] : n \in 0..Cardinality(DirEntries) } :
      \A i, j \in DOMAIN l : i # j => l[i] # l[j] }

\* The errors a service may answer a call with, beside the answers the
\* script expects (Conflict, NotFound).
Faults == {"Forbidden", "ServiceUnavailable"}
NoError == "no error"

IsCsv(f) == EndsWith(f, CSV_EXT)

\* csv_files = [f for f in os.listdir(LOCAL_CSV_DIR) if f.endswith(".csv")]
CsvFilesOf(l) == SelectSeq(l, IsCsv)

\* destination_blob_name = f"csv_data/{csv_file}"
destination_blob_name(csv_file) == CSV_DATA \o csv_file

\* f"gs://{GCS_BUCKET_NAME}/{destination_blob_name}"
GcsUri(blob) == GS \o GCS_BUCKET_NAME \o <<"/">> \o blob

\* table_name = os.path.basename(uri).replace(".csv", "").replace("-", "_")
table_name(uri) ==
  StrReplace(StrReplace(Basename(uri), CSV_EXT, <<>>), <<"-">>, <<"_">>)

\* The procedures whose create call starts a long-running operation that
\* the procedure waits for.
OperationKinds == {"lake", "zone", "asset"}

\* The four procedures that create first and look up on Conflict.
CreateFirstKinds == {"lake", "zone", "asset", "dataset"}

\* The identifier each procedure is called with in main.
IdOf(kind) ==
  CASE kind = "lake" -> <<PROJECT_ID, REGION, LAKE_ID>>
    [] kind = "zone" -> <<PROJECT_ID, REGION, LAKE_ID, ZONE_ID>>
    [] kind = "asset" -> <<PROJECT_ID, REGION, LAKE_ID, ZONE_ID, ASSET_ID>>
    [] kind = "dataset" -> <<PROJECT_ID, BIGQUERY_DATASET_ID>>

\* The resources of a kind the service holds.
Held(kind) ==
  CASE kind = "lake" -> lakes
    [] kind = "zone" -> zones
    [] kind = "asset" -> assets
    [] kind = "dataset" -> datasets

\* Source lines of the create call and of the lookup of each procedure.
CreateLine(kind) ==
  CASE kind = "lake" -> 39
    [] kind = "zone" -> 75
    [] kind = "asset" -> 128
    [] kind = "dataset" -> 148

\* Source line of operation.result(timeout=300) of the Dataplex procedures.
ResultLine(kind) ==
  CASE kind = "lake" -> 41
    [] kind = "zone" -> 77
    [] kind = "asset" -> 130

GetLine(kind) ==
  CASE kind = "lake" -> 46
    [] kind = "zone" -> 82
    [] kind = "asset" -> 135
    [] kind = "dataset" -> 153

\* Faulty variant of NextStep: main goes from the asset to the dataset
\* without sleeping.
NextStepNoSleep(step) ==
  CASE step = "upload" -> "lake"
    [] step = "lake" -> "zone"
    [] step = "zone" -> "asset"
    [] step = "asset" -> "dataset"
    [] step = "sleep" -> "dataset"
    [] step = "dataset" -> "tables"
    [] step = "tables" -> "done"

\* The order of the statements of main.
NextStep(step) ==
  CASE step = "upload" -> "lake"
    [] step = "lake" -> "zone"
    [] step = "zone" -> "asset"
    [] step = "asset" -> "sleep"
    [] step = "sleep" -> "dataset"
    [] step = "dataset" -> "tables"
    [] step = "tables" -> "done"

\* One SDK call, as the log keeps it.
Call(api, arg, answer, line) ==
  [api |-> api, arg |-> arg, answer |-> answer, run |-> run, line |-> line]

Line(kind, subject) == <<kind, subject, run>>

\* Faulty variant of StoreBlob: the upload replaces what the bucket held.
StoreBlobTruncating(objs, blob) == {blob}

\* blob.upload_from_filename: the bucket gains the blob (or has it replaced)
StoreBlob(objs, blob) == objs \cup {blob}

\* Faulty variant of Reraise: `raise RuntimeError(...)` in place of `raise`.
ReraiseWrapped(e) == "RuntimeError"

\* A bare `raise` in an except clause raises the exception it caught.
Reraise(e) == e

\* except Exception as e: print(f"Error ...: {e}"); raise
LogAndReraise(subject, e) ==
  /\ out' = Append(out, Line("error", subject))
  /\ raised' = Reraise(e)
  /\ pc' = "failed"

\* An exception raised inside an except clause is not caught by the other
\* except clauses of the same try: it leaves the procedure, and main, as is.
Propagate(e) ==
  /\ raised' = e
  /\ pc' = "failed"
  /\ UNCHANGED out

svcVars == <<objects, lakes, zones, assets, datasets, tables, discovery>>
loopVars == <<csv_files, gcs_file_uris, ui, ti>>

\* main, lines 205-212: the directory check and the listing
Start ==
  /\ pc = "start"
  /\ \/ /\ ~listdir.exists
        /\ out' = Append(out, Line("no directory", LOCAL_CSV_DIR))
        /\ pc' = "returned"
        /\ UNCHANGED csv_files
     \/ /\ listdir.exists
        /\ CsvFilesOf(listdir.entries) = <<>>
        /\ out' = Append(out, Line("no csv files", LOCAL_CSV_DIR))
        /\ pc' = "returned"
        /\ csv_files' = <<>>
     \/ /\ listdir.exists
        /\ CsvFilesOf(listdir.entries) # <<>>
        /\ csv_files' = CsvFilesOf(listdir.entries)
        /\ pc' = "upload"
        /\ UNCHANGED out
  /\ gcs_file_uris' = <<>>
  /\ ui' = 1
  /\ ti' = 1
  /\ at' = "try"
  /\ UNCHANGED <<environ, earlier, listdir, run, svcVars, calls, raised, convVars>>

\* main, lines 215-219, with upload_csv_to_gcs: one iteration of the loop
UploadCsv ==
  /\ pc = "upload"
  /\ LET blob == destination_blob_name(csv_files[ui]) IN
       \/ /\ objects' = StoreBlob(objects, <<GCS_BUCKET_NAME, blob>>)
          /\ calls' = Append(calls, Call("upload_from_filename", blob, "ok", 26))
          /\ out' = Append(out, Line("uploaded", blob))
          /\ gcs_file_uris' = Append(gcs_file_uris, GcsUri(blob))
          /\ ui' = ui + 1
          /\ pc' = IF ui + 1 > Len(csv_files) THEN NextStep("upload") ELSE "upload"
          /\ UNCHANGED raised
       \/ \E e \in Faults :
            /\ calls' = Append(calls, Call("upload_from_filename", blob, e, 26))
            /\ LogAndReraise("upload", e)
            /\ UNCHANGED <<objects, gcs_file_uris, ui>>
  /\ UNCHANGED <<environ, earlier, listdir, csv_files, ti, at, run, lakes, zones, assets,
                 datasets, tables, discovery, convVars>>

\* What the service holds once a resource of the kind has been created.
Created(kind) ==
  /\ lakes' = IF kind = "lake" THEN lakes \cup {IdOf(kind)} ELSE lakes
  /\ zones' = IF kind = "zone" THEN zones \cup {IdOf(kind)} ELSE zones
  /\ assets' = IF kind = "asset" THEN assets \cup {IdOf(kind)} ELSE assets
  /\ datasets' = IF kind = "dataset" THEN datasets \cup {IdOf(kind)} ELSE datasets
  /\ discovery' = IF kind = "asset" THEN "running" ELSE discovery

\* Faulty variant of OnCreated: the lookup is made after a successful
\* creation too.
OnCreatedLookup(kind) ==
  /\ pc' = pc
  /\ at' = "conflict"

\* `return response` / `return dataset` in the try block: back in main
OnCreated(kind) ==
  /\ pc' = NextStep(kind)
  /\ at' = "try"

\* except Conflict: print "... already exists", then the lookup
OnConflict(kind) ==
  /\ out' = Append(out, Line("already exists", kind))
  /\ at' = "conflict"
  /\ UNCHANGED <<pc, raised>>

\* The create call of the try block of create_dataplex_lake,
\* create_dataplex_zone, create_dataplex_asset and create_bigquery_dataset,
\* with the except clauses of the try:
\*   - create_dataset answers with the dataset: print, return it;
\*   - create_lake / create_zone / create_asset answer with an operation
\*     (the service may accept the request for a resource it already holds
\*     and report the conflict when the operation ends): print
\*     "Creating ...", go on to operation.result;
\*   - except Conflict: print "already exists", go on to the lookup;
\*   - except Exception: print the error and raise.
TryCreate(kind) ==
  /\ pc = kind
  /\ at = "try"
  /\ \/ /\ kind \notin OperationKinds
        /\ IdOf(kind) \notin Held(kind)
        /\ Created(kind)
        /\ calls' = Append(calls, Call("create", kind, "ok", CreateLine(kind)))
        /\ out' = Append(out, Line("created", kind))
        /\ OnCreated(kind)
        /\ UNCHANGED raised
     \/ /\ kind \in OperationKinds
        /\ calls' = Append(calls, Call("create", kind, "ok", CreateLine(kind)))
        /\ out' = Append(out, Line("creating", kind))
        /\ at' = "wait"
        /\ UNCHANGED <<pc, raised, lakes, zones, assets, datasets, discovery>>
     \/ /\ IdOf(kind) \in Held(kind)
        /\ calls' = Append(calls, Call("create", kind, "Conflict", CreateLine(kind)))
        /\ OnConflict(kind)
        /\ UNCHANGED <<lakes, zones, assets, datasets, discovery>>
     \/ \E e \in Faults :
          /\ calls' = Append(calls, Call("create", kind, e, CreateLine(kind)))
          /\ LogAndReraise(kind, e)
          /\ UNCHANGED <<at, lakes, zones, assets, datasets, discovery>>
  /\ UNCHANGED <<environ, earlier, listdir, loopVars, run, objects, tables, convVars>>

\* response = operation.result(timeout=300) in the try block of
\* create_dataplex_lake, create_dataplex_zone and create_dataplex_asset,
\* with the except clauses of the try:
\*   - the operation has created the resource: print, return it;
\*   - except Conflict (the resource was there already): print "already
\*     exists", go on to the lookup;
\*   - except Exception: print the error and raise; the service may have
\*     created the resource all the same.
AwaitResult(kind) ==
  /\ pc = kind
  /\ at = "wait"
  /\ \/ /\ IdOf(kind) \notin Held(kind)
        /\ Created(kind)
        /\ calls' = Append(calls, Call("operation.result", kind, "ok", ResultLine(kind)))
        /\ out' = Append(out, Line("created", kind))
        /\ OnCreated(kind)
        /\ UNCHANGED raised
     \/ /\ IdOf(kind) \in Held(kind)
        /\ calls' = Append(calls, Call("operation.result", kind, "Conflict", ResultLine(kind)))
        /\ OnConflict(kind)
        /\ UNCHANGED <<lakes, zones, assets, datasets, discovery>>
     \/ \E e \in Faults :
          /\ calls' = Append(calls, Call("operation.result", kind, e, ResultLine(kind)))
          /\ LogAndReraise(kind, e)
          /\ \/ UNCHANGED <<lakes, zones, assets, datasets, discovery>>
             \/ /\ IdOf(kind) \notin Held(kind)
                /\ Created(kind)
          /\ UNCHANGED at
  /\ UNCHANGED <<environ, earlier, listdir, loopVars, run, objects, tables, convVars>>

\* The lookup in the except Conflict clause: return client.get_lake(...),
\* get_zone, get_asset, get_dataset.  Nothing deletes a resource, so the
\* lookup finds it unless the call itself fails.
LookupExisting(kind) ==
  /\ pc = kind
  /\ at = "conflict"
  /\ \/ /\ calls' = Append(calls, Call("get", kind, "ok", GetLine(kind)))
        /\ pc' = NextStep(kind)
        /\ at' = "try"
        /\ UNCHANGED <<out, raised>>
     \/ \E e \in Faults :
          /\ calls' = Append(calls, Call("get", kind, e, GetLine(kind)))
          /\ Propagate(e)
          /\ UNCHANGED at
  /\ UNCHANGED <<environ, earlier, listdir, loopVars, run, svcVars, convVars>>

create_dataplex_lake ==
  TryCreate("lake") \/ AwaitResult("lake") \/ LookupExisting("lake")

create_dataplex_zone ==
  TryCreate("zone") \/ AwaitResult("zone") \/ LookupExisting("zone")

create_dataplex_asset ==
  TryCreate("asset") \/ AwaitResult("asset") \/ LookupExisting("asset")

create_bigquery_dataset == TryCreate("dataset") \/ LookupExisting("dataset")

\* Variant of SleepReturns: a wait that polls until discovery has ended.
SleepUntilDiscovered == discovery # "running"

\* time.sleep(60) returns when the time is over, whatever the services do.
SleepReturns == TRUE

\* main, line 235
Sleep ==
  /\ pc = "sleep"
  /\ SleepReturns
  /\ calls' = Append(calls, Call("sleep", SLEEP_SECONDS, "ok", 235))
  /\ pc' = NextStep("sleep")
  /\ UNCHANGED <<environ, earlier, listdir, loopVars, at, run, svcVars, out, raised, convVars>>

\* Faulty variant of TableExists: the existence check never finds the table.
TableExistsNever(name) == FALSE

\* bq_client.get_table(table_ref) finds the table (line 175)
TableExists(name) == \E t \in tables : t.name = name

\* The table loop of main (lines 244-254) after one call of
\* create_bigquery_external_table_from_csv has returned: the next uri, or
\* the closing lines.
NextTable(lines) ==
  /\ ti' = ti + 1
  /\ at' = "try"
  /\ IF ti + 1 > Len(gcs_file_uris)
     THEN /\ pc' = NextStep("tables")
          /\ out' = out \o lines \o <<Line("complete", "main")>>
     ELSE /\ pc' = "tables"
          /\ out' = out \o lines

\* create_bigquery_external_table_from_csv, lines 173-179 and 186-188:
\* the try block (bq_client.get_table) with its except clauses:
\*   - the table exists: print "already exists", return, or
\*   - except NotFound: print "Creating ...", go on to the load job, or
\*   - except Exception: print the error and raise.
TableCheck ==
  /\ pc = "tables"
  /\ at = "try"
  /\ LET name == table_name(gcs_file_uris[ti]) IN
       \/ /\ TableExists(name)
          /\ calls' = Append(calls, Call("get_table", name, "ok", 175))
          /\ NextTable(<<Line("already exists", name)>>)
          /\ UNCHANGED raised
       \/ /\ ~TableExists(name)
          /\ calls' = Append(calls, Call("get_table", name, "NotFound", 175))
          /\ out' = Append(out, Line("creating", name))
          /\ at' = "notfound"
          /\ UNCHANGED <<pc, ti, raised>>
       \/ \E e \in Faults :
            /\ calls' = Append(calls, Call("get_table", name, e, 175))
            /\ LogAndReraise(name, e)
            /\ UNCHANGED <<at, ti>>
  /\ UNCHANGED <<environ, earlier, listdir, csv_files, gcs_file_uris, ui, run, svcVars, convVars>>

\* lines 180-182, inside the except NotFound clause:
\* load_job = bq_client.load_table_from_uri(...), which submits the job
TableLoad ==
  /\ pc = "tables"
  /\ at = "notfound"
  /\ LET name == table_name(gcs_file_uris[ti]) IN
       \/ /\ calls' = Append(calls, Call("load_table_from_uri", name, "ok", 180))
          /\ at' = "job"
          /\ UNCHANGED <<pc, raised, out>>
       \/ \E e \in Faults :
            /\ calls' = Append(calls, Call("load_table_from_uri", name, e, 180))
            /\ Propagate(e)
            /\ UNCHANGED at
  /\ UNCHANGED <<environ, earlier, listdir, loopVars, run, svcVars, convVars>>

\* lines 183-184, inside the except NotFound clause: load_job.result(),
\* which waits for the job, and the print.  When the wait fails the service
\* may have made the table all the same.
TableLoadResult ==
  /\ pc = "tables"
  /\ at = "job"
  /\ LET uri == gcs_file_uris[ti]
         name == table_name(uri) IN
       \/ /\ tables' = tables \cup {[name |-> name, uri |-> uri]}
          /\ calls' = Append(calls, Call("load_job.result", name, "ok", 183))
          /\ out' = Append(out, Line("created", name))
          /\ at' = "fetch"
          /\ UNCHANGED <<pc, raised>>
       \/ \E e \in Faults :
            /\ calls' = Append(calls, Call("load_job.result", name, e, 183))
            /\ Propagate(e)
            /\ \/ UNCHANGED tables
               \/ tables' = tables \cup {[name |-> name, uri |-> uri]}
            /\ UNCHANGED at
  /\ UNCHANGED <<environ, earlier, listdir, loopVars, run, objects, lakes, zones, assets,
                 datasets, discovery, convVars>>

\* line 185, inside the except NotFound clause: return bq_client.get_table(...)
TableFetch ==
  /\ pc = "tables"
  /\ at = "fetch"
  /\ LET name == table_name(gcs_file_uris[ti]) IN
       \/ /\ calls' = Append(calls, Call("get_table", name, "ok", 185))
          /\ NextTable(<<>>)
          /\ UNCHANGED raised
       \/ \E e \in Faults :
            /\ calls' = Append(calls, Call("get_table", name, e, 185))
            /\ Propagate(e)
            /\ UNCHANGED <<at, ti>>
  /\ UNCHANGED <<environ, earlier, listdir, csv_files, gcs_file_uris, ui, run, svcVars, convVars>>

create_bigquery_external_table_from_csv ==
  TableCheck \/ TableLoad \/ TableLoadResult \/ TableFetch

\* The script has ended (normally, by an early return or by an exception)
\* and is started again: `if __name__ == "__main__": main()`.  The log of
\* the first run is kept when that run ended normally.
Rerun ==
  /\ pc \in {"done", "returned", "failed"}
  /\ run < MaxRuns
  /\ run' = run + 1
  /\ pc' = "start"
  /\ at' = "try"
  /\ raised' = NoError
  /\ csv_files' = <<>>
  /\ gcs_file_uris' = <<>>
  /\ ui' = 1
  /\ ti' = 1
  /\ earlier' = IF run = 1 /\ pc = "done" THEN calls ELSE earlier
  /\ calls' = <<>>
  /\ out' = <<>>
  /\ UNCHANGED <<environ, listdir, svcVars, convVars>>

\* Dataplex discovery: started by the service when the asset is created,
\* it ends on its own, at a time the script does not know.
DiscoveryFinish ==
  /\ discovery = "running"
  /\ discovery' = "finished"
  /\ UNCHANGED <<environ, earlier, listdir, loopVars, pc, at, run, objects, lakes, zones,
                 assets, datasets, tables, calls, out, raised, convVars>>

ProvInit ==
  /\ environ \in EnvironValues
  /\ listdir \in {NoDir} \cup {Dir(TRUE, l) : l \in Listings}
  /\ csv_files = <<>>
  /\ gcs_file_uris = <<>>
  /\ ui = 1
  /\ ti = 1
  /\ pc = "start"
  /\ at = "try"
  /\ run = 1
  /\ objects = {}
  /\ lakes = {}
  /\ zones = {}
  /\ assets = {}
  /\ datasets = {}
  /\ tables = {}
  /\ discovery = "idle"
  /\ calls = <<>>
  /\ earlier = <<>>
  /\ out = <<>>
  /\ raised = NoError

\* The provisioning script has not been started.
ProvIdle ==
  /\ environ = <<>>
  /\ listdir = NoDir
  /\ csv_files = <<>>
  /\ gcs_file_uris = <<>>
  /\ ui = 1
  /\ ti = 1
  /\ pc = "idle"
  /\ at = "try"
  /\ run = 1
  /\ objects = {}
  /\ lakes = {}
  /\ zones = {}
  /\ assets = {}
  /\ datasets = {}
  /\ tables = {}
  /\ discovery = "idle"
  /\ calls = <<>>
  /\ earlier = <<>>
  /\ out = <<>>
  /\ raised = NoError

\* The conversion script has not been started.
ConvIdle ==
  /\ cpc = "idle"
  /\ ci = 1
  /\ tmp = {}
  /\ landing = {}
  /\ clog = <<>>

Init == ProvInit /\ ConvIdle

Next ==
  \/ Start
  \/ UploadCsv
  \/ create_dataplex_lake
  \/ create_dataplex_zone
  \/ create_dataplex_asset
  \/ Sleep
  \/ create_bigquery_dataset
  \/ create_bigquery_external_table_from_csv
  \/ Rerun
  \/ DiscoveryFinish

\* The provisioning script, automate.py
Spec == Init /\ [][Next]_vars

InitConv == ConvInit /\ ProvIdle

\* The conversion script, main.py
SpecConv == InitConv /\ [][ConvNext]_vars

---------------------------------------------------------------------------
(* Properties of the conversion script, checked under SpecConv *)

ConvFiles == {conv_csv_files[k] : k \in DOMAIN conv_csv_files}

\* The places of the log where `op` was done for `file`.
ConvIdx(op, file) ==
  {i \in DOMAIN clog : clog[i][1] = op /\ clog[i][2] = file}

ConvOps(op) == {i \in DOMAIN clog : clog[i][1] = op}

\* C1: every filename of the list is downloaded at most once, converted at
\* most once and uploaded at most once, its download before its conversion
\* and its conversion before its upload; when the script ends without a
\* failed call each has happened exactly once; nothing but the list's files
\* is downloaded or uploaded.
C1_EachFileOnceInOrder ==
  /\ \A f \in ConvFiles :
       LET D == ConvIdx("download", f)
           C == ConvIdx("convert", f)
           U == ConvIdx("upload", f)
       IN /\ Cardinality(D) <= 1
          /\ Cardinality(C) <= 1
          /\ Cardinality(U) <= 1
          /\ \A c \in C : \E d \in D : d < c
          /\ \A u \in U : \E c \in C : c < u
          /\ cpc = "done" =>
               /\ Cardinality(D) = 1
               /\ Cardinality(C) = 1
               /\ Cardinality(U) = 1
  /\ \A i \in DOMAIN clog : clog[i][2] \in ConvFiles
  /\ Cardinality(landing) = Cardinality(ConvOps("upload"))
  /\ cpc = "done" => Len(clog) = 3 * Len(conv_csv_files)

\* C1 witness: the script ran to its end over the whole list.
C1_Witness ==
  /\ cpc = "done"
  /\ Cardinality(ConvOps("download")) = Len(conv_csv_files)
  /\ Cardinality(ConvOps("upload")) = Len(conv_csv_files)

\* The key the claim names: the filename without its last four characters
\* (".csv"), with ".parquet" put in their place, under the target prefix.
MirroredKey(f) ==
  target_prefix \o SubSeq(f, 1, Len(f) - Len(CSV_EXT)) \o PARQUET_EXT

\* C2: the object read for f is source_prefix + f, the object written is
\* target_prefix + f with its ".csv" extension replaced by ".parquet", and
\* distinct filenames give distinct written keys.
C2_OutputKeyMirrorsInput ==
  /\ \A i \in ConvOps("download") :
       clog[i][3] = source_prefix \o clog[i][2]
  /\ \A i \in ConvOps("upload") :
       /\ EndsWith(clog[i][2], CSV_EXT)
       /\ clog[i][3] = MirroredKey(clog[i][2])
       /\ clog[i][3] \in landing
  /\ \A i, j \in ConvOps("upload") :
       clog[i][2] # clog[j][2] => clog[i][3] # clog[j][3]
  /\ \A k, l \in DOMAIN conv_csv_files :
       k # l => TargetKey(conv_csv_files[k]) # TargetKey(conv_csv_files[l])

\* C2 witness: every file of the list has its own object under the target
\* prefix.
C2_Witness ==
  /\ cpc = "done"
  /\ Cardinality(landing) = Len(conv_csv_files)
  /\ \A f \in ConvFiles : MirroredKey(f) \in landing

---------------------------------------------------------------------------
(* Properties of the provisioning script, checked under Spec *)

AllCalls == DOMAIN calls

\* The calls of the first run, when it ended normally, and of the current
\* run.
History == earlier \o calls

Answered(S, answer) == {i \in S : History[i].answer = answer}

InRun(S, r) == {i \in S : History[i].run = r}

\* The calls made for a resource of a create-first kind.
Creates(kind) ==
  {i \in DOMAIN History : History[i].api = "create" /\ History[i].arg = kind}

\* The waits for the operation a creation call started.
Results(kind) ==
  {i \in DOMAIN History :
     History[i].api = "operation.result" /\ History[i].arg = kind}

\* The calls by which a resource of the kind came to exist: the creation
\* call itself for the dataset, the end of the operation for the others.
Creations(kind) ==
  IF kind \in OperationKinds
  THEN Answered(Results(kind), "ok")
  ELSE Answered(Creates(kind), "ok")

\* The calls of the procedure that the service answered with Conflict.
Conflicts(kind) ==
  Answered(Creates(kind), "Conflict") \cup Answered(Results(kind), "Conflict")

Lookups(kind) ==
  {i \in DOMAIN History : History[i].api = "get" /\ History[i].arg = kind}

\* The calls made for the table `name`: the existence check of line 175 and
\* the load job of line 180.
TableChecks(name) ==
  {i \in DOMAIN History : History[i].line = 175 /\ History[i].arg = name}

TableLoads(name) ==
  {i \in DOMAIN History : History[i].line = 180 /\ History[i].arg = name}

TableNames == {table_name(GcsUri(destination_blob_name(f))) : f \in DirEntries}

\* The script ran twice, both times to its end, and no call failed.
TwoCleanRuns ==
  /\ run = 2
  /\ pc = "done"
  /\ \E i \in DOMAIN History : History[i].run = 1
  /\ \A i \in DOMAIN History : History[i].answer \notin Faults

\* The tables whose procedure was called exactly twice in the two runs.
TablesCalledTwice == {n \in TableNames : Cardinality(TableChecks(n)) = 2}

\* C3, as claimed: two calls in sequence for the same identifier, the
\* resource absent at first, make exactly one creation call and take one
\* reuse path, for each of the five procedures.
C3_OneCreationCall ==
  TwoCleanRuns =>
    /\ \A kind \in CreateFirstKinds :
         /\ Cardinality(Creates(kind)) = 1
         /\ Cardinality(Lookups(kind)) = 1
         /\ IdOf(kind) \in Held(kind)
    /\ \A n \in TablesCalledTwice :
         /\ Cardinality(TableLoads(n)) = 1
         /\ Cardinality(Answered(TableChecks(n), "ok")) = 1
         /\ Cardinality({t \in tables : t.name = n}) = 1

\* C3, amended: of the two calls exactly one creation call succeeds, the
\* first; the second call reuses the resource through one lookup.  The four
\* create-first procedures issue a creation call in the second call too,
\* which the service answers with Conflict (at the call, or when the
\* operation it started ends); the table procedure issues one load job
\* only.  The service holds the resource once.
C3_OneCreationSucceeds ==
  TwoCleanRuns =>
    /\ \A kind \in CreateFirstKinds :
         /\ Cardinality(Creations(kind)) = 1
         /\ Cardinality(InRun(Creations(kind), 1)) = 1
         /\ Cardinality(Creates(kind)) = 2
         /\ Cardinality(Conflicts(kind)) = 1
         /\ Cardinality(InRun(Conflicts(kind), 2)) = 1
         /\ Cardinality(Lookups(kind)) = 1
         /\ Cardinality(InRun(Answered(Lookups(kind), "ok"), 2)) = 1
         /\ IdOf(kind) \in Held(kind)
    /\ \A n \in TablesCalledTwice :
         /\ Cardinality(TableLoads(n)) = 1
         /\ Cardinality(InRun(Answered(TableLoads(n), "ok"), 1)) = 1
         /\ Cardinality(InRun(Answered(TableChecks(n), "NotFound"), 1)) = 1
         /\ Cardinality(InRun(Answered(TableChecks(n), "ok"), 2)) = 1
         /\ Cardinality({t \in tables : t.name = n}) = 1

\* C3 witness: two clean runs, with a table whose procedure ran twice.
C3_Witness ==
  /\ TwoCleanRuns
  /\ TablesCalledTwice # {}
  /\ \A kind \in CreateFirstKinds : Lookups(kind) # {}

\* A call of one of the provisioning procedures (not the blob upload, not
\* the sleep).
Provisioning(c) ==
  c.api \in {"create", "operation.result", "get", "get_table",
             "load_table_from_uri", "load_job.result"}

ProvisioningFaults ==
  {i \in AllCalls : Provisioning(calls[i]) /\ calls[i].answer \in Faults}

\* C4: an error of a provisioning call, other than the answer the procedure
\* expects, leaves main as the exception the call raised, and no further
\* call (provisioning call, sleep, table creation) is made in that run: the
\* failed call is the last of the run's log.
C4_FaultPropagatesAndHalts ==
  \A i \in ProvisioningFaults :
    /\ i = Len(calls)
    /\ calls[i].run = run
    /\ pc = "failed"
    /\ raised = calls[i].answer

\* C4 witness: a lookup on the reuse path failed, after earlier steps of
\* the run had succeeded, and main has ended with that error.
C4_Witness ==
  /\ pc = "failed"
  /\ calls # <<>>
  /\ Len(calls) \in ProvisioningFaults
  /\ calls[Len(calls)].api = "get"
  /\ calls[Len(calls)].arg = "zone"
  /\ raised = calls[Len(calls)].answer

\* A lookup of a resource of the four kinds the claim names.
IsLookup(c) ==
  \/ c.api = "get" /\ c.arg \in {"lake", "zone", "asset"}
  \/ c.api = "get_table"

IsCreationOf(c, d) ==
  \/ c.api = "get" /\ d.api \in {"create", "operation.result"} /\ d.arg = c.arg
  \/ c.api = "get_table"
       /\ d.api \in {"load_table_from_uri", "load_job.result"}
       /\ d.arg = c.arg

\* C5, as claimed: lake, zone, asset and table are ensured by the same
\* protocol: a lookup is made only after the creation call of the same
\* procedure call was answered with a conflict.
C5_AllCreateFirst ==
  \A i \in AllCalls :
    IsLookup(calls[i]) =>
      /\ i > 1
      /\ IsCreationOf(calls[i], calls[i - 1])
      /\ calls[i - 1].answer = "Conflict"

\* C5, amended: lake, zone and asset (and the dataset) are ensured
\* create-first: every lookup directly follows a creation call of the same
\* procedure call that was answered Conflict, and such an answer is
\* followed by nothing but the lookup.  The table procedure is
\* lookup-first: the load job directly follows an existence check answered
\* NotFound, and a second lookup follows the load.
C5_CreateFirstButTable ==
  \A i \in AllCalls :
    LET c == calls[i] IN
      /\ c.api = "get" =>
           /\ c.arg \in CreateFirstKinds
           /\ i > 1
           /\ calls[i - 1].api \in {"create", "operation.result"}
           /\ calls[i - 1].arg = c.arg
           /\ calls[i - 1].answer = "Conflict"
      /\ c.api = "operation.result" =>
           /\ i > 1
           /\ calls[i - 1].api = "create"
           /\ calls[i - 1].arg = c.arg
           /\ calls[i - 1].answer = "ok"
      /\ (c.api \in {"create", "operation.result"} /\ c.answer = "Conflict") =>
           IF i < Len(calls)
           THEN calls[i + 1].api = "get" /\ calls[i + 1].arg = c.arg
           ELSE pc = c.arg /\ at = "conflict"
      /\ c.api = "load_table_from_uri" =>
           /\ i > 1
           /\ calls[i - 1].line = 175
           /\ calls[i - 1].arg = c.arg
           /\ calls[i - 1].answer = "NotFound"
      /\ c.api = "load_job.result" =>
           /\ i > 1
           /\ calls[i - 1].api = "load_table_from_uri"
           /\ calls[i - 1].arg = c.arg
           /\ calls[i - 1].answer = "ok"
      /\ c.line = 185 =>
           /\ i > 1
           /\ calls[i - 1].api = "load_job.result"
           /\ calls[i - 1].arg = c.arg
           /\ calls[i - 1].answer = "ok"

\* C5 witness: a lake was reused after a Conflict and a table was created
\* after a NotFound.
C5_Witness ==
  /\ \E i \in AllCalls :
       /\ calls[i].api = "get"
       /\ calls[i].arg = "lake"
       /\ calls[i].answer = "ok"
  /\ \E i \in AllCalls :
       /\ calls[i].api = "load_job.result"
       /\ calls[i].answer = "ok"
       /\ calls[i].run = 2
  /\ pc = "done"

\* C6, as claimed: whenever a provisioning call fails with an unexpected
\* error, an error line is printed in that run before main ends.
C6_EveryFaultLogged ==
  \A i \in ProvisioningFaults :
    \E k \in DOMAIN out :
      /\ out[k][1] = "error"
      /\ out[k][3] = calls[i].run

\* C7: no step removes anything the services hold.
C7_ResourcesOnlyGrow ==
  [][ /\ objects \subseteq objects'
      /\ lakes \subseteq lakes'
      /\ zones \subseteq zones'
      /\ assets \subseteq assets'
      /\ datasets \subseteq datasets'
      /\ tables \subseteq tables' ]_vars

\* C7 witness: a run failed at the asset, with blobs, the lake and the zone
\* created before that still in place.
C7_Witness ==
  /\ pc = "failed"
  /\ run = 1
  /\ Cardinality(objects) = 2
  /\ lakes # {}
  /\ zones # {}
  /\ assets = {}

\* The statement of main a call belongs to, by its place in main.
Rank(c) ==
  CASE c.api = "upload_from_filename" -> 1
    [] c.api \in {"create", "operation.result", "get"} /\ c.arg = "lake" -> 2
    [] c.api \in {"create", "operation.result", "get"} /\ c.arg = "zone" -> 3
    [] c.api \in {"create", "operation.result", "get"} /\ c.arg = "asset" -> 4
    [] c.api = "sleep" -> 5
    [] c.api \in {"create", "get"} /\ c.arg = "dataset" -> 6
    [] c.api \in {"get_table", "load_table_from_uri", "load_job.result"} -> 7

\* The calls of the run made before the i-th.
Before(i) == {k \in AllCalls : k < i}

\* The procedure of the kind has returned a resource: the one it created
\* or the one it looked up.
EnsuredIn(B, kind) ==
  \E k \in B :
    /\ \/ calls[k].api = "get"
       \/ calls[k].api = "operation.result"
       \/ calls[k].api = "create" /\ kind \notin OperationKinds
    /\ calls[k].arg = kind
    /\ calls[k].answer = "ok"

\* C8: within a run the calls come in the order uploads, lake, zone, asset,
\* sleep, dataset, tables (no call is followed by one of an earlier
\* statement of main);
\* a table call is made only after every CSV has been uploaded, lake, zone
\* and asset have been ensured, the sleep is over and the dataset has been
\* ensured.
C8_StepsInOrder ==
  \A i \in AllCalls :
    LET c == calls[i] IN
      /\ i < Len(calls) => Rank(c) <= Rank(calls[i + 1])
      /\ c.api \in {"get_table", "load_table_from_uri", "load_job.result"} =>
           LET B == Before(i) IN
             /\ Cardinality({k \in B : calls[k].api = "upload_from_filename"
                                        /\ calls[k].answer = "ok"})
                  = Len(CsvFilesOf(listdir.entries))
             /\ EnsuredIn(B, "lake")
             /\ EnsuredIn(B, "zone")
             /\ EnsuredIn(B, "asset")
             /\ Cardinality({k \in B : calls[k].api = "sleep"}) = 1
             /\ EnsuredIn(B, "dataset")
      /\ c.api = "sleep" => EnsuredIn(Before(i), "asset")

\* C8 witness: both tables of a two-file directory have been dealt with.
C8_Witness ==
  /\ pc = "done"
  /\ Len(csv_files) = 2
  /\ \E i \in AllCalls : calls[i].api = "load_table_from_uri" /\ calls[i].run = run

\* C9: the sleep ends whatever the state of discovery: whenever main is at
\* the sleep, the step that leaves it can be taken.
C9_SleepIgnoresDiscovery ==
  pc = "sleep" => ENABLED Sleep

\* C9 witness: main is creating the dataset or the tables while discovery
\* is still running.
C9_Witness ==
  /\ pc \in {"dataset", "tables"}
  /\ discovery = "running"
  /\ \E i \in AllCalls : calls[i].api = "sleep" /\ calls[i].run = run

\* C10, as claimed: a run that starts with an empty dataset and ends
\* normally has given every uploaded CSV a table of its own, loaded from
\* its own URI, and has skipped none as already existing.
C10_OneTablePerCsv ==
  (run = 1 /\ pc = "done") =>
    /\ \A k, l \in DOMAIN gcs_file_uris :
         k # l => table_name(gcs_file_uris[k]) # table_name(gcs_file_uris[l])
    /\ \A k \in DOMAIN gcs_file_uris : \E t \in tables : t.uri = gcs_file_uris[k]
    /\ Cardinality(tables) = Len(csv_files)
    /\ \A i \in AllCalls : calls[i].line = 175 => calls[i].answer # "ok"

=============================================================================
